---------------------------- MODULE Spec2Model ----------------------------
(***************************************************************************)
(* A model of libraries/AP_Motors/AP_MotorsMatrix.cpp: the motor registry  *)
(* (add_motor_raw, add_motor, remove_motor, remove_all_motors), the mixer  *)
(* (output_armed, output_min, output_disarmed) and the test sequencer      *)
(* (output_test).                                                          *)
(*                                                                         *)
(* Numbers.  int16_t values are integers; an int16_t assignment of an int  *)
(* expression goes through Int16.  A float factor f is held as the integer *)
(* f * FactorScale (millionths); a float expression is evaluated exactly   *)
(* as a rational and converted to int16_t by truncation toward zero, as    *)
(* the C++ conversion does.  Single-precision rounding is not modelled.    *)
(* A float division by zero and the conversion of the resulting infinity   *)
(* or NaN to int16_t are undefined behaviour: the converted value is a     *)
(* nondeterministic choice from UBValues.                                  *)
(***************************************************************************)
EXTENDS Integers, Sequences, FiniteSets, TLC

VARIABLES
    motor_enabled,      \* bool  motor_enabled[AP_MOTORS_MAX_NUM_MOTORS]
    _roll_factor,       \* float _roll_factor[], in millionths
    _pitch_factor,      \* float _pitch_factor[], in millionths
    _yaw_factor,        \* float _yaw_factor[], in millionths
    _test_order,        \* uint8_t _test_order[]
    _num_motors,        \* int8_t _num_motors
    _rc_roll,           \* RC_Channel: [pwm_out]
    _rc_pitch,          \* RC_Channel: [pwm_out]
    _rc_yaw,            \* RC_Channel: [pwm_out]
    _rc_throttle,       \* RC_Channel: [servo_out, radio_out, radio_min, radio_max]
    _min_throttle,      \* int16_t
    _max_throttle,      \* int16_t
    _hover_out,         \* int16_t
    _spin_when_armed,   \* int16_t (AP_Int16 parameter)
    _throttle_curve_enabled,
    limit,              \* [roll_pitch, yaw, throttle]
    motor_out,          \* int16_t motor_out[]
    hal,                \* what the running (or last) operation sent to hal.rcout / hal.scheduler
    call,               \* the last operation called, with its arguments and what it read on entry
    calc,               \* the locals of the last output_armed call
    pc,                 \* output_test: "idle", "on", "off", "spin", "finish", "done"
    min_order,          \* output_test locals (uint8_t)
    max_order,
    t_i,
    t_j

regvars  == <<motor_enabled, _roll_factor, _pitch_factor, _yaw_factor, _test_order, _num_motors>>
rcvars   == <<_rc_roll, _rc_pitch, _rc_yaw, _rc_throttle>>
cfgvars  == <<_min_throttle, _max_throttle, _hover_out, _spin_when_armed, _throttle_curve_enabled>>
outvars  == <<limit, motor_out, calc>>
testvars == <<pc, min_order, max_order, t_i, t_j>>
vars     == <<regvars, rcvars, cfgvars, outvars, hal, call, testvars>>

(***************************************************************************)
(* Sizes and arithmetic                                                    *)
(***************************************************************************)
\* the capacity of the motor arrays (scaled down)
AP_MOTORS_MAX_NUM_MOTORS == 4

Motors == 0 .. (AP_MOTORS_MAX_NUM_MOTORS - 1)

\* one float factor unit: 1.0 is FactorScale
FactorScale == 10^6

Abs(x) == IF x < 0 THEN -x ELSE x

\* C++ integer division: the quotient truncated toward zero
TruncDiv(a, b) ==
    IF (a >= 0) = (b > 0) THEN Abs(a) \div Abs(b) ELSE -(Abs(a) \div Abs(b))

\* an int stored in an int16_t
Int16(x) == ((x + 32768) % 65536) - 32768

\* an int stored in a uint8_t
UInt8(x) == x % 256

\* the rational num/den (den # 0) stored in an int16_t
FloatToInt16(num, den) == TruncDiv(num, den)

Min2(a, b) == IF a < b THEN a ELSE b
Max2(a, b) == IF a > b THEN a ELSE b

\* cosf(radians(deg)) in millionths, for the multiples of 45 degrees
cosf_radians(deg) ==
    LET d == deg % 360
    IN  CASE d = 0   -> 1000000
          [] d = 45  -> 707107
          [] d = 90  -> 0
          [] d = 135 -> -707107
          [] d = 180 -> -1000000
          [] d = 225 -> -707107
          [] d = 270 -> 0
          [] d = 315 -> 707107

(***************************************************************************)
(* The motor registry                                                      *)
(***************************************************************************)
Registry ==
    [motor_enabled |-> motor_enabled, _roll_factor |-> _roll_factor,
     _pitch_factor |-> _pitch_factor, _yaw_factor |-> _yaw_factor,
     _test_order |-> _test_order, _num_motors |-> _num_motors]

SetRegistry(r) ==
    /\ motor_enabled' = r.motor_enabled
    /\ _roll_factor'  = r._roll_factor
    /\ _pitch_factor' = r._pitch_factor
    /\ _yaw_factor'   = r._yaw_factor
    /\ _test_order'   = r._test_order
    /\ _num_motors'   = r._num_motors

\* the registry after remove_all_motors on zero-initialised storage
EmptyRegistry ==
    [motor_enabled |-> [i \in Motors |-> FALSE], _roll_factor |-> [i \in Motors |-> 0],
     _pitch_factor |-> [i \in Motors |-> 0], _yaw_factor |-> [i \in Motors |-> 0],
     _test_order |-> [i \in Motors |-> 0], _num_motors |-> 0]

ValidMotorNum(motor_num) == motor_num >= 0 /\ motor_num < AP_MOTORS_MAX_NUM_MOTORS

\* a plausible bug: the counter is incremented on every call
AddMotorRawAlwaysCounts(r, motor_num, roll_fac, pitch_fac, yaw_fac, testing_order) ==
    IF ValidMotorNum(motor_num)
    THEN [motor_enabled |-> [r.motor_enabled EXCEPT ![motor_num] = TRUE],
          _num_motors   |-> r._num_motors + 1,
          _roll_factor  |-> [r._roll_factor EXCEPT ![motor_num] = roll_fac],
          _pitch_factor |-> [r._pitch_factor EXCEPT ![motor_num] = pitch_fac],
          _yaw_factor   |-> [r._yaw_factor EXCEPT ![motor_num] = yaw_fac],
          _test_order   |-> [r._test_order EXCEPT ![motor_num] = testing_order]]
    ELSE r

\* add_motor_raw on registry r
AddMotorRaw(r, motor_num, roll_fac, pitch_fac, yaw_fac, testing_order) ==
    IF ValidMotorNum(motor_num)
    THEN [motor_enabled |-> [r.motor_enabled EXCEPT ![motor_num] = TRUE],
          _num_motors   |-> IF ~r.motor_enabled[motor_num]
                            THEN r._num_motors + 1 ELSE r._num_motors,
          _roll_factor  |-> [r._roll_factor EXCEPT ![motor_num] = roll_fac],
          _pitch_factor |-> [r._pitch_factor EXCEPT ![motor_num] = pitch_fac],
          _yaw_factor   |-> [r._yaw_factor EXCEPT ![motor_num] = yaw_fac],
          _test_order   |-> [r._test_order EXCEPT ![motor_num] = testing_order]]
    ELSE r

\* a plausible bug: an out-of-range slot is clamped into range, not ignored
AddMotorClampsSlot(r, motor_num, angle_degrees, yaw_factor, testing_order) ==
    AddMotorRaw(r, Max2(0, Min2(motor_num, AP_MOTORS_MAX_NUM_MOTORS - 1)),
                cosf_radians(angle_degrees + 90), cosf_radians(angle_degrees),
                yaw_factor, testing_order)

\* add_motor on registry r: the factors from the motor's angle
AddMotor(r, motor_num, angle_degrees, yaw_factor, testing_order) ==
    AddMotorRaw(r, motor_num, cosf_radians(angle_degrees + 90),
                cosf_radians(angle_degrees), yaw_factor, testing_order)

\* a plausible bug: the counter is decremented on every call
RemoveMotorAlwaysCounts(r, motor_num) ==
    IF ValidMotorNum(motor_num)
    THEN [r EXCEPT !.motor_enabled[motor_num] = FALSE,
                   !._num_motors = @ - 1,
                   !._roll_factor[motor_num] = 0,
                   !._pitch_factor[motor_num] = 0,
                   !._yaw_factor[motor_num] = 0]
    ELSE r

\* remove_motor on registry r
RemoveMotor(r, motor_num) ==
    IF ValidMotorNum(motor_num)
    THEN [r EXCEPT !.motor_enabled[motor_num] = FALSE,
                   !._num_motors = IF r.motor_enabled[motor_num] THEN @ - 1 ELSE @,
                   !._roll_factor[motor_num] = 0,
                   !._pitch_factor[motor_num] = 0,
                   !._yaw_factor[motor_num] = 0]
    ELSE r

\* the loop of remove_all_motors from slot i on
RECURSIVE RemoveFrom(_, _)
RemoveFrom(r, i) ==
    IF i < AP_MOTORS_MAX_NUM_MOTORS THEN RemoveFrom(RemoveMotor(r, i), i + 1) ELSE r

\* remove_all_motors on registry r
RemoveAllMotors(r) == [RemoveFrom(r, 0) EXCEPT !._num_motors = 0]

\* what the registry calls of the model are given
SlotArgs    == -1 .. AP_MOTORS_MAX_NUM_MOTORS
RawFactors  == { <<-500000, 866025, 1000000>> }
AngleArgs   == {45}
YawArgs     == {-1000000}
OrderArgs   == {0, 255}

NoCalc == [path |-> "none"]

NoAdd == [op |-> "none", num_before |-> 0, enabled_before |-> FALSE]

AddOps == {"add_motor", "add_motor_raw"}

\* the record of a registry call: its name and slot argument, the counter and
\* the slot's enabled flag on entry and, for a remove_motor that directly
\* follows an add on the same in-range slot, what that add found on entry
RegistryCall(op, motor_num) ==
    [op |-> op, motor_num |-> motor_num, num_before |-> _num_motors,
     enabled_before |-> IF ValidMotorNum(motor_num) THEN motor_enabled[motor_num] ELSE FALSE,
     add_before |-> IF /\ op = "remove_motor"
                       /\ call.op \in AddOps
                       /\ call.motor_num = motor_num
                       /\ ValidMotorNum(motor_num)
                    THEN [op |-> call.op, num_before |-> call.num_before,
                          enabled_before |-> call.enabled_before]
                    ELSE NoAdd]

add_motor_raw(motor_num, roll_fac, pitch_fac, yaw_fac, testing_order) ==
    /\ pc \in {"idle", "done"}
    /\ SetRegistry(AddMotorRaw(Registry, motor_num, roll_fac, pitch_fac, yaw_fac, testing_order))
    /\ call' = RegistryCall("add_motor_raw", motor_num)
    /\ UNCHANGED <<rcvars, cfgvars, outvars, hal, testvars>>

add_motor(motor_num, angle_degrees, yaw_factor, testing_order) ==
    /\ pc \in {"idle", "done"}
    /\ SetRegistry(AddMotor(Registry, motor_num, angle_degrees, yaw_factor, testing_order))
    /\ call' = RegistryCall("add_motor", motor_num)
    /\ UNCHANGED <<rcvars, cfgvars, outvars, hal, testvars>>

remove_motor(motor_num) ==
    /\ pc \in {"idle", "done"}
    /\ SetRegistry(RemoveMotor(Registry, motor_num))
    /\ call' = RegistryCall("remove_motor", motor_num)
    /\ UNCHANGED <<rcvars, cfgvars, outvars, hal, testvars>>

remove_all_motors ==
    /\ pc \in {"idle", "done"}
    /\ SetRegistry(RemoveAllMotors(Registry))
    /\ call' = RegistryCall("remove_all_motors", -1)
    /\ UNCHANGED <<rcvars, cfgvars, outvars, hal, testvars>>

(***************************************************************************)
(* The mixer: output_min, output_disarmed, output_armed                    *)
(***************************************************************************)
\* the floor of the yaw authority, in pwm
AP_MOTORS_MATRIX_YAW_LOWER_LIMIT_PWM == 200

\* what the conversion of an infinity, a NaN or an out-of-range float to
\* int16_t may leave in the int16_t
UBValues == {-32768, 0, 32767}
UBKinds  == {"nan", "inf"}

\* the output channel of motor slot i
_motor_to_channel_map(i) == <<0, 1, 2, 3, 6, 7, 9, 10>>[i + 1]

constrain_int16(amt, low, high) ==
    IF amt < low THEN low ELSE IF amt > high THEN high ELSE amt

\* _throttle_curve.get_y(x): linear interpolation through (radio_min, radio_min),
\* (mid, radio_min + 52%), (radio_max, radio_min + 93%), flat outside
get_y(x) ==
    LET x0 == _rc_throttle.radio_min
        x2 == _rc_throttle.radio_max
        x1 == TruncDiv(x0 + x2, 2)
        y0 == x0
        y1 == x0 + TruncDiv((x2 - x0) * 52, 100)
        y2 == x0 + TruncDiv((x2 - x0) * 93, 100)
    IN  IF x <= x0 THEN y0
        ELSE IF x >= x2 THEN y2
        ELSE IF x <= x1 THEN y0 + TruncDiv((x - x0) * (y1 - y0), x1 - x0)
        ELSE y1 + TruncDiv((x - x1) * (y2 - y1), x2 - x1)

\* hal.rcout->write(_motor_to_channel_map[i], out[i]) for every enabled motor, in slot order
RECURSIVE WriteEnabled(_, _)
WriteEnabled(out, i) ==
    IF i >= AP_MOTORS_MAX_NUM_MOTORS THEN << >>
    ELSE (IF motor_enabled[i]
          THEN << [kind |-> "write", ch |-> _motor_to_channel_map(i), value |-> out[i]] >>
          ELSE << >>) \o WriteEnabled(out, i + 1)

\* motor_out after output_min
MotorOutMin == [i \in Motors |-> IF motor_enabled[i] THEN _rc_throttle.radio_min ELSE motor_out[i]]

\* the record of a mixer call: its name, the throttle servo_out the caller left,
\* and the flags and _spin_when_armed on entry
MixerCall(op, servo_out) ==
    [op |-> op, servo_out |-> servo_out, limit_before |-> limit,
     spin_before |-> _spin_when_armed]

output_min ==
    /\ pc \in {"idle", "done"}
    /\ motor_out' = MotorOutMin
    /\ hal' = WriteEnabled(MotorOutMin, 0)
    /\ call' = MixerCall("output_min", _rc_throttle.servo_out)
    /\ calc' = NoCalc
    /\ UNCHANGED <<regvars, rcvars, cfgvars, limit, testvars>>

output_disarmed ==
    /\ pc \in {"idle", "done"}
    /\ motor_out' = MotorOutMin
    /\ hal' = WriteEnabled(MotorOutMin, 0)
    /\ call' = MixerCall("output_disarmed", _rc_throttle.servo_out)
    /\ calc' = NoCalc
    /\ UNCHANGED <<regvars, rcvars, cfgvars, limit, testvars>>

\* the locals out_min, out_max, out_mid
OutMin == Int16(_rc_throttle.radio_min + _min_throttle)
OutMax == _rc_throttle.radio_max
OutMid == Int16(TruncDiv(OutMin + OutMax, 2))

\* a plausible bug: the flags are not reset on entry
LimitInitKeeps(prior) == prior

\* the flags after "initialize limits flag"
LimitInit(prior) == [roll_pitch |-> FALSE, yaw |-> FALSE, throttle |-> FALSE]

\* a plausible bug: spin_when_armed is not checked against _min_throttle
SpinWhenArmedNoUpper(spin, min_throttle) == IF spin < 0 THEN 0 ELSE spin

\* _spin_when_armed after "range check spin_when_armed"
SpinWhenArmed(spin, min_throttle) ==
    LET s == IF spin < 0 THEN 0 ELSE spin
    IN  IF s > min_throttle THEN min_throttle ELSE s

\* roll and pitch for motor i
RollPitchOut(i, roll_pwm, pitch_pwm) ==
    FloatToInt16(roll_pwm * _roll_factor[i] + pitch_pwm * _pitch_factor[i], FactorScale)

\* the lowest / highest command of the enabled motors, starting from low / high
Lowest(rpy, low) ==
    LET S == {rpy[i] : i \in {j \in Motors : motor_enabled[j]}} \cup {low}
    IN  CHOOSE v \in S : \A w \in S : v <= w

Highest(rpy, high) ==
    LET S == {rpy[i] : i \in {j \in Motors : motor_enabled[j]}} \cup {high}
    IN  CHOOSE v \in S : \A w \in S : v >= w

\* out_max_range: the throttle that gives most room for yaw
OutMaxRange(rpy_low, rpy_high, radio_out) ==
    LET motor_mid == Int16(TruncDiv(rpy_low + rpy_high, 2))
    IN  Int16(Min2(OutMid - motor_mid,
                   Max2(radio_out, TruncDiv(radio_out + _hover_out, 2))))

\* yaw_allowed: the amount of yaw that fits, floored
YawAllowed(out_max_range, rpy_low, rpy_high) ==
    Max2(Int16(Min2(OutMax - out_max_range, out_max_range - OutMin)
               - TruncDiv(rpy_high - rpy_low, 2)),
         AP_MOTORS_MATRIX_YAW_LOWER_LIMIT_PWM)

\* a plausible bug: yaw_allowed is not negated when yawing left
YawOutNotNegated(yaw_allowed, yaw_pwm) ==
    IF yaw_allowed > yaw_pwm
    THEN [yaw |-> IF yaw_pwm >= 0 THEN yaw_pwm ELSE yaw_allowed, limited |-> yaw_pwm < 0]
    ELSE [yaw |-> yaw_allowed, limited |-> TRUE]

\* yaw_allowed after the comparison with the requested yaw, and whether yaw was limited
YawOut(yaw_allowed, yaw_pwm) ==
    IF yaw_pwm >= 0
    THEN IF yaw_allowed > yaw_pwm
         THEN [yaw |-> yaw_pwm, limited |-> FALSE]
         ELSE [yaw |-> yaw_allowed, limited |-> TRUE]
    ELSE IF -yaw_allowed < yaw_pwm
         THEN [yaw |-> yaw_pwm, limited |-> FALSE]
         ELSE [yaw |-> -yaw_allowed, limited |-> TRUE]

\* rpy_out[i] with yaw added
AddYaw(i, rp, yaw) == FloatToInt16(rp * FactorScale + yaw * _yaw_factor[i], FactorScale)

\* a plausible bug: a negative thr_adj is dropped, the throttle stays at out_max_range
ThrAdjDropsNegative(radio_out, out_max_range, rpy_low, rpy_high) ==
    LET thr_adj == Int16(radio_out - out_max_range)
    IN  IF thr_adj > 0
        THEN IF thr_adj > OutMax - (rpy_high + out_max_range)
             THEN [thr_adj |-> Int16(OutMax - (rpy_high + out_max_range)), limited |-> TRUE]
             ELSE [thr_adj |-> thr_adj, limited |-> FALSE]
        ELSE [thr_adj |-> 0, limited |-> FALSE]

\* thr_adj after "check everything fits", and whether the throttle flag is set there
ThrAdj(radio_out, out_max_range, rpy_low, rpy_high) ==
    LET thr_adj == Int16(radio_out - out_max_range)
    IN  IF thr_adj > 0
        THEN IF thr_adj > OutMax - (rpy_high + out_max_range)
             THEN [thr_adj |-> Int16(OutMax - (rpy_high + out_max_range)), limited |-> TRUE]
             ELSE [thr_adj |-> thr_adj, limited |-> FALSE]
        ELSE IF thr_adj < 0
        THEN [thr_adj |-> Int16(Max2(Min2(thr_adj, OutMax - (rpy_high + out_max_range)),
                                     Min2(OutMin - (rpy_low + out_max_range), 0))),
              limited |-> FALSE]
        ELSE [thr_adj |-> 0, limited |-> FALSE]

\* rpy_scale as the fraction num/den, and the branch that set it
RpyScale(rpy_low, rpy_high, out_max_range, thr_adj) ==
    IF (rpy_low + out_max_range) + thr_adj < OutMin
    THEN [branch |-> "low", num |-> OutMin - thr_adj - out_max_range, den |-> rpy_low]
    ELSE IF (rpy_high + out_max_range) + thr_adj > OutMax
    THEN [branch |-> "high", num |-> OutMax - thr_adj - out_max_range, den |-> rpy_high]
    ELSE [branch |-> "none", num |-> 1, den |-> 1]

\* out_max_range + thr_adj + rpy_scale * rpy stored in motor_out[i]
ScaledOut(base, scale, rpy, ub) ==
    IF scale.den = 0
    THEN (IF rpy = 0 THEN ub["nan"] ELSE ub["inf"])
    ELSE LET v == FloatToInt16(base * scale.den + scale.num * rpy, scale.den)
         IN  IF v >= -32768 /\ v <= 32767 THEN v ELSE ub["inf"]

\* "clip motor output if required"
ClipMotorOut(v) == constrain_int16(v, OutMin, OutMax)

\* output_armed is evaluated in stages, each adding locals to the record c of
\* the locals so far.  Stage 1: the flags reset, servo_out constrained.
ArmedEntry(prior, servo_in, radio_out, roll_pwm, pitch_pwm, yaw_pwm) ==
    [limit |-> LimitInit(prior), servo_out |-> constrain_int16(servo_in, 0, _max_throttle),
     radio_out |-> radio_out, roll_pwm |-> roll_pwm, pitch_pwm |-> pitch_pwm,
     yaw_pwm |-> yaw_pwm]

\* "if we are not sending a throttle output, we cut the motors"
ArmedZero(c) ==
    c @@ [path |-> "zero"]
      @@ [spin |-> SpinWhenArmed(_spin_when_armed, _min_throttle)]

\* "check if throttle is below limit", "calculate roll and pitch for each motor"
ArmedRollPitch(c) ==
    [c EXCEPT !.limit.throttle = IF c.radio_out < OutMin THEN TRUE ELSE @]
      @@ [path |-> "general", spin |-> _spin_when_armed,
          rp_out |-> [i \in Motors |-> IF motor_enabled[i]
                         THEN RollPitchOut(i, c.roll_pwm, c.pitch_pwm) ELSE 0]]

ArmedRollPitchRange(c) ==
    c @@ [rpy_low1 |-> Lowest(c.rp_out, 0), rpy_high1 |-> Highest(c.rp_out, 0)]

ArmedOutMaxRange(c) ==
    c @@ [out_max_range |-> OutMaxRange(c.rpy_low1, c.rpy_high1, c.radio_out)]

ArmedYawAllowed(c) ==
    c @@ [yaw_allowed |-> YawAllowed(c.out_max_range, c.rpy_low1, c.rpy_high1)]

ArmedYawOut(c) == c @@ [yaw_out |-> YawOut(c.yaw_allowed, c.yaw_pwm)]

\* "add yaw to intermediate numbers for each motor"
ArmedAddYaw(c) ==
    [c EXCEPT !.limit.yaw = IF c.yaw_out.limited THEN TRUE ELSE @]
      @@ [yaw |-> c.yaw_out.yaw,
          rpy_out |-> [i \in Motors |-> IF motor_enabled[i]
                          THEN AddYaw(i, c.rp_out[i], c.yaw_out.yaw) ELSE 0]]

ArmedRange(c) ==
    c @@ [rpy_low |-> Lowest(c.rpy_out, c.rpy_low1), rpy_high |-> Highest(c.rpy_out, c.rpy_high1)]

\* "check everything fits"
ArmedThrAdjOut(c) ==
    c @@ [thr_out |-> ThrAdj(c.radio_out, c.out_max_range, c.rpy_low, c.rpy_high)]

ArmedThrAdj(c) ==
    [c EXCEPT !.limit.throttle = IF c.thr_out.limited THEN TRUE ELSE @]
      @@ [thr_adj |-> c.thr_out.thr_adj]

\* "do we need to reduce roll, pitch, yaw command"
ArmedScaleOut(c) ==
    c @@ [rpy_scale |-> RpyScale(c.rpy_low, c.rpy_high, c.out_max_range, c.thr_adj)]

ArmedScale(c) ==
    [c EXCEPT !.limit.roll_pitch = IF c.rpy_scale.branch # "none" THEN TRUE ELSE @,
              !.limit.yaw = IF c.rpy_scale.branch # "none" THEN TRUE ELSE @]

\* the locals of output_armed before any motor_out is computed
ArmedLocals(prior, servo_in, radio_out, roll_pwm, pitch_pwm, yaw_pwm) ==
    IF constrain_int16(servo_in, 0, _max_throttle) = 0
    THEN ArmedZero(ArmedEntry(prior, servo_in, radio_out, roll_pwm, pitch_pwm, yaw_pwm))
    ELSE ArmedScale(ArmedScaleOut(ArmedThrAdj(ArmedThrAdjOut(ArmedRange(ArmedAddYaw(
         ArmedYawOut(ArmedYawAllowed(ArmedOutMaxRange(ArmedRollPitchRange(ArmedRollPitch(
         ArmedEntry(prior, servo_in, radio_out, roll_pwm, pitch_pwm, yaw_pwm))))))))))))

\* the flags after output_armed
ArmedLimit(c) ==
    IF c.path = "zero" THEN [roll_pitch |-> TRUE, yaw |-> TRUE, throttle |-> TRUE] ELSE c.limit

\* "add scaled roll, pitch, constrained yaw and throttle for each motor"
ArmedScaled(c, ub) ==
    [i \in Motors |-> IF motor_enabled[i]
        THEN ScaledOut(c.out_max_range + c.thr_adj, c.rpy_scale, c.rpy_out[i], ub)
        ELSE motor_out[i]]

\* "adjust for throttle curve"
ArmedCurve(scaled) ==
    [i \in Motors |-> IF motor_enabled[i] /\ _throttle_curve_enabled
        THEN get_y(scaled[i]) ELSE scaled[i]]

\* motor_out after output_armed
ArmedMotorOut(c, ub) ==
    IF c.path = "zero"
    THEN [i \in Motors |-> IF motor_enabled[i]
             THEN Int16(_rc_throttle.radio_min + c.spin) ELSE motor_out[i]]
    ELSE [i \in Motors |-> IF motor_enabled[i]
             THEN ClipMotorOut(ArmedCurve(ArmedScaled(c, ub))[i]) ELSE motor_out[i]]

NoUB == [k \in UBKinds |-> 0]

\* whether the call divides by zero or converts an out-of-range float
ArmedUndefined(c) ==
    /\ c.path # "zero"
    /\ \/ c.rpy_scale.den = 0
       \/ \E i \in Motors : motor_enabled[i] /\
             LET v == FloatToInt16((c.out_max_range + c.thr_adj) * c.rpy_scale.den
                                   + c.rpy_scale.num * c.rpy_out[i], c.rpy_scale.den)
             IN  v < -32768 \/ v > 32767

output_armed(servo_in, radio_out, roll_pwm, pitch_pwm, yaw_pwm) ==
    /\ pc \in {"idle", "done"}
    /\ \E c \in {ArmedLocals(limit, servo_in, radio_out, roll_pwm, pitch_pwm, yaw_pwm)} :
       \E ub \in (IF ArmedUndefined(c) THEN [UBKinds -> UBValues] ELSE {NoUB}) :
       \E out \in {ArmedMotorOut(c, ub)} :
         /\ _rc_throttle' = [_rc_throttle EXCEPT !.servo_out = c.servo_out,
                                                 !.radio_out = radio_out]
         /\ _rc_roll' = [pwm_out |-> roll_pwm]
         /\ _rc_pitch' = [pwm_out |-> pitch_pwm]
         /\ _rc_yaw' = [pwm_out |-> yaw_pwm]
         /\ _spin_when_armed' = c.spin
         /\ limit' = ArmedLimit(c)
         /\ motor_out' = out
         /\ hal' = WriteEnabled(out, 0)
         /\ calc' = [c EXCEPT !.limit = ArmedLimit(c)]
                      @@ [unclipped |-> IF c.path = "zero" THEN out
                                        ELSE ArmedCurve(ArmedScaled(c, ub))]
         /\ call' = MixerCall("output_armed", servo_in)
    /\ UNCHANGED <<regvars, _min_throttle, _max_throttle, _hover_out,
                   _throttle_curve_enabled, testvars>>

(***************************************************************************)
(* The test sequencer: output_test                                         *)
(*                                                                         *)
(* output_test blocks in hal.scheduler->delay; it is modelled in steps,    *)
(* one up to each delay.  Loop iterations that neither write nor delay     *)
(* (no enabled motor with the order at hand) are taken within the step     *)
(* that reaches them; the loop counter i is a uint8_t throughout.          *)
(***************************************************************************)
\* the log of a run keeps the pulses up to this many beyond one per slot
MaxRepeat == 2

\* min_order / max_order over all slots
MinOrder == CHOOSE v \in {_test_order[i] : i \in Motors} :
                \A w \in {_test_order[i] : i \in Motors} : v <= w
MaxOrder == CHOOSE v \in {_test_order[i] : i \in Motors} :
                \A w \in {_test_order[i] : i \in Motors} : v >= w

\* the condition of the inner loop's if
TestMatch(i, j) == motor_enabled[j] /\ _test_order[j] = i

\* the first slot from j on that matches order i, or AP_MOTORS_MAX_NUM_MOTORS
FirstMatch(i, j) ==
    LET S == {k \in Motors : k >= j /\ TestMatch(i, k)}
    IN  IF S = {} THEN AP_MOTORS_MAX_NUM_MOTORS ELSE CHOOSE k \in S : \A m \in S : k <= m

\* "i++; i<=max_order" on the uint8_t i
LoopContinues(i, max) == UInt8(i + 1) <= max

Least(S) == CHOOSE v \in S : \A w \in S : v <= w

\* where the loops stand at the next write, from position (i, j): at a matching
\* motor ("on"), past the outer loop ("finish"), or going round the uint8_t
\* range for ever without a match ("spin")
Seek(i, j, max) ==
    IF FirstMatch(i, j) < AP_MOTORS_MAX_NUM_MOTORS
    THEN [pc |-> "on", i |-> i, j |-> FirstMatch(i, j)]
    ELSE LET \* passes until the condition fails: it fails only for i in
             \* max..254, so first at i itself or at max
             exits == {m \in {0, UInt8(max - i)} : ~LoopContinues(UInt8(i + m), max)}
             \* passes until a motor matches: at the orders of the enabled motors
             hits  == {IF _test_order[k] = i THEN 256 ELSE UInt8(_test_order[k] - i) :
                          k \in {m \in Motors : motor_enabled[m]}}
             e == IF exits = {} THEN 257 ELSE Least(exits)
             h == IF hits = {} THEN 257 ELSE Least(hits)
         IN  IF h < 257 /\ h <= e
             THEN [pc |-> "on", i |-> UInt8(i + h), j |-> FirstMatch(UInt8(i + h), 0)]
             ELSE IF e < 257
             THEN [pc |-> "finish", i |-> UInt8(i + e + 1), j |-> AP_MOTORS_MAX_NUM_MOTORS]
             ELSE [pc |-> "spin", i |-> i, j |-> AP_MOTORS_MAX_NUM_MOTORS]

Delay(ms) == << [kind |-> "delay", ms |-> ms] >>
Write(ch, value) == << [kind |-> "write", ch |-> ch, value |-> value] >>

\* the "on" writes sent so far
PulsesFired == Cardinality({n \in 1..Len(hal) : hal[n].kind = "delay" /\ hal[n].ms = 300})

\* up to the first delay: find min and max orders, output_min, delay(4000)
output_test_begin ==
    /\ pc \in {"idle", "done"}
    /\ min_order' = MinOrder
    /\ max_order' = MaxOrder
    /\ motor_out' = MotorOutMin
    /\ hal' = WriteEnabled(MotorOutMin, 0) \o Delay(4000)
    /\ \E p \in {Seek(MinOrder, 0, MaxOrder)} :
          pc' = p.pc /\ t_i' = p.i /\ t_j' = p.j
    /\ call' = MixerCall("output_test", _rc_throttle.servo_out)
    /\ calc' = NoCalc
    /\ UNCHANGED <<regvars, rcvars, cfgvars, limit>>

\* the log is still open for a pulse; a run that goes on fires unlogged
LogOpen == PulsesFired < AP_MOTORS_MAX_NUM_MOTORS + MaxRepeat

\* the last entry of the log is the delay of a pulse's "on" half
OnLogged == Len(hal) > 0 /\ hal[Len(hal)] = [kind |-> "delay", ms |-> 300]

\* "turn on this motor and wait 1/3rd of a second"
output_test_on ==
    /\ pc = "on"
    /\ hal' = IF LogOpen
              THEN hal \o Write(_motor_to_channel_map(t_j),
                                _rc_throttle.radio_min + _min_throttle) \o Delay(300)
              ELSE hal
    /\ pc' = "off"
    /\ UNCHANGED <<regvars, rcvars, cfgvars, outvars, call, min_order, max_order, t_i, t_j>>

\* a plausible bug: the motor is not sent back to radio_min after its pulse
output_test_off_leaves_on ==
    /\ pc = "off"
    /\ hal' = IF OnLogged THEN hal \o Delay(2000) ELSE hal
    /\ \E p \in {Seek(t_i, t_j + 1, max_order)} :
          pc' = p.pc /\ t_i' = p.i /\ t_j' = p.j
    /\ UNCHANGED <<regvars, rcvars, cfgvars, outvars, call, min_order, max_order>>

\* the motor back to radio_min, delay(2000), and on to the next motor
output_test_off ==
    /\ pc = "off"
    /\ hal' = IF OnLogged
              THEN hal \o Write(_motor_to_channel_map(t_j), _rc_throttle.radio_min)
                       \o Delay(2000)
              ELSE hal
    /\ \E p \in {Seek(t_i, t_j + 1, max_order)} :
          pc' = p.pc /\ t_i' = p.i /\ t_j' = p.j
    /\ UNCHANGED <<regvars, rcvars, cfgvars, outvars, call, min_order, max_order>>

\* one more pass of the outer loop that reaches no write: i++ on the uint8_t,
\* the condition i<=max_order still true
output_test_spin ==
    /\ pc = "spin"
    /\ LoopContinues(t_i, max_order)
    /\ t_i' = UInt8(t_i + 1)
    /\ UNCHANGED <<regvars, rcvars, cfgvars, outvars, hal, call, pc, min_order, max_order, t_j>>

\* a plausible bug: the motors are shut down by taking them out of the registry
output_test_finish_removes ==
    /\ pc = "finish"
    /\ motor_out' = MotorOutMin
    /\ hal' = hal \o WriteEnabled(MotorOutMin, 0)
    /\ pc' = "done"
    /\ SetRegistry(RemoveAllMotors(Registry))
    /\ UNCHANGED <<rcvars, cfgvars, limit, calc, call, min_order, max_order, t_i, t_j>>

\* after the loops: "shut down all motors"
output_test_finish ==
    /\ pc = "finish"
    /\ motor_out' = MotorOutMin
    /\ hal' = hal \o WriteEnabled(MotorOutMin, 0)
    /\ pc' = "done"
    /\ UNCHANGED <<regvars, rcvars, cfgvars, limit, calc, call, min_order, max_order, t_i, t_j>>

(***************************************************************************)
(* The state after construction                                            *)
(***************************************************************************)
InitRC ==
    /\ _rc_roll = [pwm_out |-> 0]
    /\ _rc_pitch = [pwm_out |-> 0]
    /\ _rc_yaw = [pwm_out |-> 0]
    /\ _rc_throttle = [servo_out |-> 0, radio_out |-> 1000, radio_min |-> 1000, radio_max |-> 2000]

InitOut ==
    /\ limit = [roll_pitch |-> FALSE, yaw |-> FALSE, throttle |-> FALSE]
    /\ motor_out = [i \in Motors |-> 0]
    /\ calc = NoCalc
    /\ hal = << >>
    /\ call = [op |-> "constructor", motor_num |-> -1, num_before |-> 0,
               enabled_before |-> FALSE, add_before |-> NoAdd]

InitTest ==
    /\ pc = "idle"
    /\ min_order = 0
    /\ max_order = 0
    /\ t_i = 0
    /\ t_j = 0

InitRegistryEmpty ==
    /\ motor_enabled = EmptyRegistry.motor_enabled
    /\ _roll_factor  = EmptyRegistry._roll_factor
    /\ _pitch_factor = EmptyRegistry._pitch_factor
    /\ _yaw_factor   = EmptyRegistry._yaw_factor
    /\ _test_order   = EmptyRegistry._test_order
    /\ _num_motors   = EmptyRegistry._num_motors

InitCfgDefault ==
    /\ _min_throttle = 130
    /\ _max_throttle = 1000
    /\ _hover_out = 1500
    /\ _spin_when_armed = 70
    /\ _throttle_curve_enabled = FALSE

(***************************************************************************)
(* The mixer on registered frames                                          *)
(***************************************************************************)
\* four motors at 45, 135, 225 and 315 degrees, yaw factors +1, -1, +1, -1
QuadX ==
    AddMotor(AddMotor(AddMotor(AddMotor(EmptyRegistry,
        0, 45, 1000000, 0), 1, 135, -1000000, 0), 2, 225, 1000000, 1), 3, 315, -1000000, 2)

\* what is left of a QuadX after remove_motor(1) and remove_motor(3) and two
\* add_motor_raw calls: raw motors that turn the same way, in slots 0 and 2
RawPair ==
    AddMotorRaw(AddMotorRaw(RemoveMotor(RemoveMotor(QuadX, 1), 3),
        0, 1000000, 0, 1000000, 0), 2, 0, 500000, 1000000, 255)

\* the same four positions with yaw factors +0.5, -0.5, +0.5, -0.5
SoftYaw ==
    AddMotor(AddMotor(AddMotor(AddMotor(EmptyRegistry,
        0, 45, 500000, 0), 1, 135, -500000, 0), 2, 225, 500000, 1), 3, 315, -500000, 2)

Geometries == {QuadX, RawPair, SoftYaw}

\* the mixer's configuration: _min_throttle, _max_throttle, _hover_out,
\* _spin_when_armed, _throttle_curve_enabled
Configs ==
    { <<100, 1000, 1700, 70, FALSE>>,
      <<130, 800, 1300, 200, TRUE>>,
      <<130, 1000, 500, -10, FALSE>>,
      <<1100, 1000, 1500, 1200, FALSE>> }

\* what the caller and calc_pwm give one output_armed call
ThrottleInputs == { <<0, 1000>>, <<-5, 1000>>, <<50, 1050>>, <<120, 1120>>, <<500, 1500>>,
                    <<1000, 2000>> }
RollInputs  == {0, 800}
PitchInputs == {-300, 0}
YawInputs   == {-300, 0, 450}

InitMixer ==
    /\ \E g \in Geometries :
          /\ motor_enabled = g.motor_enabled
          /\ _roll_factor  = g._roll_factor
          /\ _pitch_factor = g._pitch_factor
          /\ _yaw_factor   = g._yaw_factor
          /\ _test_order   = g._test_order
          /\ _num_motors   = g._num_motors
    /\ \E k \in Configs :
          /\ _min_throttle = k[1]
          /\ _max_throttle = k[2]
          /\ _hover_out = k[3]
          /\ _spin_when_armed = k[4]
          /\ _throttle_curve_enabled = k[5]
    /\ InitRC /\ InitOut /\ InitTest

NextMixer ==
    \/ \E t \in ThrottleInputs, r \in RollInputs, p \in PitchInputs, y \in YawInputs :
            output_armed(t[1], t[2], r, p, y)
    \/ output_min
    \/ output_disarmed

SpecMixer == InitMixer /\ [][NextMixer]_vars

\* every value the last operation wrote to hal.rcout
Written == {hal[k].value : k \in {n \in 1..Len(hal) : hal[n].kind = "write"}}

MixerOps == {"output_armed", "output_min", "output_disarmed"}

EnabledMotors == {i \in Motors : motor_enabled[i]}

\* the value the last operation wrote for motor slot i (0 when it wrote none)
WrittenFor(i) ==
    LET ks == {n \in 1..Len(hal) : hal[n].kind = "write" /\ hal[n].ch = _motor_to_channel_map(i)}
    IN  IF ks = {} THEN 0 ELSE hal[CHOOSE n \in ks : \A m \in ks : m <= n].value

\* every enabled motor was written once by the last operation, and no other channel
WroteEachEnabledOnce ==
    /\ Len(hal) = Cardinality(EnabledMotors)
    /\ \A i \in EnabledMotors :
          Cardinality({n \in 1..Len(hal) : hal[n].kind = "write"
                                           /\ hal[n].ch = _motor_to_channel_map(i)}) = 1

\* a configuration whose minimum throttle lies inside the radio range
MinThrottleInRange ==
    _min_throttle >= 0 /\ _rc_throttle.radio_min + _min_throttle <= _rc_throttle.radio_max

AllTrue  == [roll_pitch |-> TRUE, yaw |-> TRUE, throttle |-> TRUE]
AllFalse == [roll_pitch |-> FALSE, yaw |-> FALSE, throttle |-> FALSE]

\* C1 as stated: every value output_armed, output_min or output_disarmed writes
\* for an enabled motor lies in [radio_min, radio_max], under any input.
C1_WritesWithinRadioRange ==
    call.op \in MixerOps =>
        \A v \in Written : v >= _rc_throttle.radio_min /\ v <= _rc_throttle.radio_max

\* the same for a _min_throttle with 0 <= _min_throttle and
\* radio_min + _min_throttle <= radio_max, where it holds; each enabled motor
\* is written once
WritesWithinRadioRangeValidMin ==
    (call.op \in MixerOps /\ MinThrottleInRange) =>
        /\ WroteEachEnabledOnce
        /\ \A v \in Written : v >= _rc_throttle.radio_min /\ v <= _rc_throttle.radio_max

\* C3: output_armed called with throttle servo_out 0 writes every enabled motor
\* radio_min + clamp(spin_when_armed, 0, min_throttle) and sets all three flags.
C3_ZeroThrottle ==
    (call.op = "output_armed" /\ call.servo_out = 0) =>
        /\ WroteEachEnabledOnce
        /\ \A i \in EnabledMotors :
              WrittenFor(i) = _rc_throttle.radio_min
                              + constrain_int16(call.spin_before, 0, _min_throttle)
        /\ limit = AllTrue

\* C3 witness: a zero-throttle call that found spin_when_armed above min_throttle
\* and the flags clear
C3_Witness ==
    /\ call.op = "output_armed" /\ call.servo_out = 0
    /\ call.spin_before > _min_throttle
    /\ call.limit_before = AllFalse
    /\ EnabledMotors # {}
    /\ \A i \in EnabledMotors : WrittenFor(i) = _rc_throttle.radio_min + _min_throttle

\* the fraction s.num / s.den is a number at most 1
ScaleAtMostOne(s) ==
    /\ s.den # 0
    /\ IF s.den > 0 THEN s.num <= s.den ELSE s.num >= s.den

\* C4: in every output_armed call the factor rpy_scale is at most 1.0.
C4_ScaleAtMostOne ==
    (call.op = "output_armed" /\ calc.path = "general") => ScaleAtMostOne(calc.rpy_scale)

\* C7: in the general case, whenever the applied throttle out_max_range + thr_adj
\* is below the requested radio_out, limit.throttle is true.
C7_ThrottleReductionFlagged ==
    (call.op = "output_armed" /\ calc.path = "general"
        /\ calc.out_max_range + calc.thr_adj < _rc_throttle.radio_out)
    => limit.throttle

\* factors pairwise equal and opposite: every enabled motor has an enabled
\* counterpart with the negated roll and pitch factors
PairwiseOpposite ==
    \A i \in EnabledMotors : \E j \in EnabledMotors :
        _roll_factor[j] = -_roll_factor[i] /\ _pitch_factor[j] = -_pitch_factor[i]

\* the value the throttle alone asks for: the zero-throttle spin, or the throttle
\* pwm through the curve, within [out_min, out_max]
ThrottleDerived ==
    IF _rc_throttle.servo_out = 0
    THEN _rc_throttle.radio_min + constrain_int16(call.spin_before, 0, _min_throttle)
    ELSE LET thr == constrain_int16(_rc_throttle.radio_out, OutMin, OutMax)
         IN  constrain_int16(IF _throttle_curve_enabled THEN get_y(thr) ELSE thr,
                             OutMin, OutMax)

\* C8: with pairwise opposite factors and roll = pitch = yaw = 0, output_armed
\* writes all enabled motors the same value, the throttle-derived value.
C8_SymmetricNeutral ==
    (call.op = "output_armed" /\ PairwiseOpposite /\ EnabledMotors # {}
        /\ _rc_roll.pwm_out = 0 /\ _rc_pitch.pwm_out = 0 /\ _rc_yaw.pwm_out = 0)
    => \A i \in EnabledMotors : WrittenFor(i) = ThrottleDerived

\* the scenario of C9: the QuadX frame, radio range 1000..2000, min_throttle 100,
\* throttle servo_out 500, roll = pitch = yaw = 0
C9_Scenario ==
    /\ call.op = "output_armed"
    /\ Registry = QuadX
    /\ _rc_throttle.radio_min = 1000 /\ _rc_throttle.radio_max = 2000
    /\ _min_throttle = 100
    /\ call.servo_out = 500
    /\ _rc_roll.pwm_out = 0 /\ _rc_pitch.pwm_out = 0 /\ _rc_yaw.pwm_out = 0

\* C9 as stated: in the scenario output_armed writes 1550 to all four motors
\* and leaves all three flags false.
C9_Writes1550 ==
    C9_Scenario => (\A i \in Motors : WrittenFor(i) = 1550) /\ limit = AllFalse

\* C9 amended: in the scenario, with radio_out 1500 for servo_out 500 and no
\* throttle curve, output_armed writes 1500 to all four and leaves the flags false.
C9_Writes1500 ==
    (C9_Scenario /\ _rc_throttle.radio_out = 1500 /\ ~_throttle_curve_enabled)
    => /\ Len(hal) = 4
       /\ \A i \in 0..3 : WrittenFor(i) = 1500
       /\ limit = AllFalse

\* C9 witness: the scenario has run with radio_out 1500
C9_Witness ==
    /\ C9_Scenario /\ _rc_throttle.radio_out = 1500 /\ ~_throttle_curve_enabled
    /\ calc.path = "general"
    /\ motor_out[3] = 1500

AllLimits == [roll_pitch : BOOLEAN, yaw : BOOLEAN, throttle : BOOLEAN]

\* C10: the flags after output_armed are those the same call leaves from any
\* other prior flags, and are all false when nothing in the call saturates.
C10_FlagsIndependentOfPrior ==
    call.op = "output_armed" =>
        /\ \A prior \in AllLimits :
              ArmedLimit(ArmedLocals(prior, call.servo_out, _rc_throttle.radio_out,
                                     _rc_roll.pwm_out, _rc_pitch.pwm_out, _rc_yaw.pwm_out))
              = limit
        /\ (/\ calc.path = "general"
            /\ _rc_throttle.radio_out >= OutMin
            /\ ~calc.yaw_out.limited
            /\ ~calc.thr_out.limited
            /\ calc.rpy_scale.branch = "none") => limit = AllFalse

\* C10 witness: a call that found all three flags set and left all three clear
C10_Witness ==
    /\ call.op = "output_armed"
    /\ call.limit_before = AllTrue
    /\ limit = AllFalse

(***************************************************************************)
(* The test sequencer on registries left by registry calls                 *)
(***************************************************************************)
\* the test orders the motors of the model are registered with
TestOrders == {0, 1, 2, 255}

\* a slot as registry calls leave it: never added, added with some order, or
\* added with order 0 or 255 and removed
SlotStates ==
    {[enabled |-> TRUE, order |-> o] : o \in TestOrders}
        \cup {[enabled |-> FALSE, order |-> o] : o \in {0, 255}}

\* the registry after add_motor_raw(i, 1.0, 0, 1.0, order) for every slot of
\* `slots` and remove_motor(i) for those not enabled in it
RECURSIVE TestRegistry(_, _)
TestRegistry(slots, i) ==
    IF i < 0 THEN EmptyRegistry
    ELSE LET r == TestRegistry(slots, i - 1)
             a == AddMotorRaw(r, i, 1000000, 0, 1000000, slots[i].order)
         IN  IF slots[i].enabled THEN a
             ELSE IF slots[i].order = 0 THEN r
             ELSE RemoveMotor(a, i)

InitSequencer ==
    /\ \E slots \in [Motors -> SlotStates] :
       \E g \in {TestRegistry(slots, AP_MOTORS_MAX_NUM_MOTORS - 1)} :
          /\ motor_enabled = g.motor_enabled
          /\ _roll_factor  = g._roll_factor
          /\ _pitch_factor = g._pitch_factor
          /\ _yaw_factor   = g._yaw_factor
          /\ _test_order   = g._test_order
          /\ _num_motors   = g._num_motors
    /\ InitCfgDefault /\ InitRC /\ InitOut /\ InitTest

NextSequencer ==
    \/ output_test_begin
    \/ output_test_on
    \/ output_test_off
    \/ output_test_spin
    \/ output_test_finish

SpecSequencer == InitSequencer /\ [][NextSequencer]_vars

\* output_test runs on once called: a delay returns, the loops go on
SpecSequencerFair ==
    /\ InitSequencer
    /\ [][NextSequencer]_vars
    /\ WF_vars(output_test_on \/ output_test_off \/ output_test_spin \/ output_test_finish)

\* slot a is fired before slot b: lower test order, ties by slot index
FiresBefore(a, b) ==
    _test_order[a] < _test_order[b] \/ (_test_order[a] = _test_order[b] /\ a < b)

RECURSIVE FiringOrder(_)
FiringOrder(S) ==
    IF S = {} THEN << >>
    ELSE LET m == CHOOSE a \in S : \A b \in S \ {a} : FiresBefore(a, b)
         IN  << m >> \o FiringOrder(S \ {m})

\* one pulse pair on the channel of slot m
PulsePair(m) ==
    Write(_motor_to_channel_map(m), _rc_throttle.radio_min + _min_throttle) \o Delay(300)
        \o Write(_motor_to_channel_map(m), _rc_throttle.radio_min) \o Delay(2000)

RECURSIVE PulsePairs(_)
PulsePairs(order) ==
    IF order = << >> THEN << >> ELSE PulsePair(Head(order)) \o PulsePairs(Tail(order))

\* what output_test sends between its first delay and its last output_min when
\* it fires each enabled motor once, in test order
ExpectedPulses == PulsePairs(FiringOrder(EnabledMotors))

IsPrefix(a, b) == Len(a) <= Len(b) /\ SubSeq(b, 1, Len(a)) = a

\* the part of the log after output_min and the first delay
SentAfterSettle == SubSeq(hal, Cardinality(EnabledMotors) + 2, Len(hal))

\* C6: output_test fires each enabled motor exactly once, in test order with
\* ties by slot index, each firing one pulse pair (radio_min + min_throttle,
\* 300 ms, radio_min, 2000 ms) completed before the next; no disabled motor.
C6_TestFiresEachOnceInOrder ==
    /\ pc \in {"on", "off", "finish", "spin"} => IsPrefix(SentAfterSettle, ExpectedPulses)
    /\ pc = "finish" => SentAfterSettle = ExpectedPulses
    /\ pc = "done" => SentAfterSettle = ExpectedPulses \o WriteEnabled(MotorOutMin, 0)

\* C13: for any registry state, with any test orders in 0..255 on enabled or
\* disabled slots, output_test terminates: once called it reaches the final
\* output_min and returns.
C13_TestTerminates == (pc \in {"on", "off", "spin", "finish"}) ~> (pc = "done")

\* the enabled motors whose channel was last written a value above radio_min
MotorsDriven == {i \in EnabledMotors : WrittenFor(i) > _rc_throttle.radio_min}

\* C20: throughout output_test at most one motor channel has a last-written
\* value above radio_min; a motor is at radio_min + min_throttle only while
\* every other enabled motor is at radio_min, and when output_test returns
\* every enabled motor is at radio_min.
C20_OneMotorDrivenAtATime ==
    call.op = "output_test" =>
        /\ Cardinality(MotorsDriven) <= 1
        /\ \A i \in EnabledMotors :
              WrittenFor(i) \in {_rc_throttle.radio_min, _rc_throttle.radio_min + _min_throttle}
        /\ (pc = "off" /\ OnLogged) =>
              /\ WrittenFor(t_j) = _rc_throttle.radio_min + _min_throttle
              /\ \A i \in EnabledMotors \ {t_j} : WrittenFor(i) = _rc_throttle.radio_min
        /\ pc \in {"on", "finish", "spin", "done"} => MotorsDriven = {}

\* C20 witness: the second motor of a test is being driven, the first one is
\* back at radio_min
C20_Witness ==
    /\ call.op = "output_test" /\ pc = "off" /\ OnLogged
    /\ PulsesFired = 2
    /\ MotorsDriven = {t_j}
    /\ \E i \in EnabledMotors \ {t_j} :
          \E n \in 1..Len(hal) : hal[n] = [kind |-> "write", ch |-> _motor_to_channel_map(i),
                                           value |-> _rc_throttle.radio_min + _min_throttle]

(***************************************************************************)
(* The registry from construction on: any sequence of registry calls       *)
(***************************************************************************)
InitRegistry == InitRegistryEmpty /\ InitCfgDefault /\ InitRC /\ InitOut /\ InitTest

NextRegistry ==
    \/ \E n \in SlotArgs, f \in RawFactors, o \in OrderArgs :
            add_motor_raw(n, f[1], f[2], f[3], o)
    \/ \E n \in SlotArgs, a \in AngleArgs, y \in YawArgs, o \in OrderArgs :
            add_motor(n, a, y, o)
    \/ \E n \in SlotArgs : remove_motor(n)
    \/ remove_all_motors

SpecRegistry == InitRegistry /\ [][NextRegistry]_vars

NumEnabled == Cardinality({i \in Motors : motor_enabled[i]})

\* C2: after any sequence of registry calls from the empty registry the counter
\* _num_motors is the number of enabled slots, every disabled slot has roll,
\* pitch and yaw factors zero, and remove_all_motors leaves the counter at 0.
C2_CountAndZeroFactors ==
    /\ _num_motors = NumEnabled
    /\ \A i \in Motors :
          ~motor_enabled[i] => _roll_factor[i] = 0 /\ _pitch_factor[i] = 0 /\ _yaw_factor[i] = 0
    /\ call.op = "remove_all_motors" => _num_motors = 0 /\ NumEnabled = 0

\* C2 witness: a remove_motor call has disabled a slot while another stays enabled
C2_Witness ==
    /\ call.op = "remove_motor"
    /\ ValidMotorNum(call.motor_num)
    /\ call.num_before = 2
    /\ _num_motors = 1
    /\ \E i \in Motors : motor_enabled[i] /\ _roll_factor[i] # 0

\* C5 as stated: an add_motor or add_motor_raw on an in-range slot followed by
\* remove_motor on the same slot leaves _num_motors at its value before the add.
C5_AddRemoveRestoresCount ==
    (call.op = "remove_motor" /\ call.add_before.op \in AddOps)
        => _num_motors = call.add_before.num_before

\* C5 amended: the count returns to its value before the add when the slot
\* was not enabled before the add, and ends one below it when the slot was.
C5_AddRemoveCount ==
    (call.op = "remove_motor" /\ call.add_before.op \in AddOps)
        => _num_motors = IF call.add_before.enabled_before
                         THEN call.add_before.num_before - 1
                         ELSE call.add_before.num_before

\* C5 witness: add_motor on a disabled slot of a non-empty registry, then
\* remove_motor on that slot
C5_Witness ==
    /\ call.op = "remove_motor"
    /\ call.add_before.op = "add_motor"
    /\ ~call.add_before.enabled_before
    /\ call.add_before.num_before = 1
    /\ _num_motors = 1


\* the call was an output_armed that took the general (non-zero throttle) path
GeneralCase == call.op = "output_armed" /\ calc.path = "general"

\* C14: whenever the low-bound scaling branch is taken rpy_low is non-zero, and
\* whenever the high-bound scaling branch is taken rpy_high is non-zero, so the
\* scale computation never divides by zero.
C14_ScaledExtremeNonZero ==
    GeneralCase =>
        /\ (calc.rpy_low + calc.out_max_range) + calc.thr_adj < OutMin => calc.rpy_low # 0
        /\ (/\ ~((calc.rpy_low + calc.out_max_range) + calc.thr_adj < OutMin)
            /\ (calc.rpy_high + calc.out_max_range) + calc.thr_adj > OutMax)
           => calc.rpy_high # 0

\* every enabled motor has abs(yaw_factor) < 1
YawFactorsBelowOne == \A i \in EnabledMotors : Abs(_yaw_factor[i]) < FactorScale

\* C15: with abs(yaw_factor) < 1 on all motors, after the throttle adjustment
\* the low and the high limit are never both passed.
C15_LimitsNotBothPassed ==
    (GeneralCase /\ YawFactorsBelowOne) =>
        ~(/\ (calc.rpy_low + calc.out_max_range) + calc.thr_adj < OutMin
          /\ (calc.rpy_high + calc.out_max_range) + calc.thr_adj > OutMax)

\* C16: in the general case with no throttle curve the final clamp changes
\* nothing: each enabled motor's out_max_range + thr_adj + rpy_scale * rpy_out[i]
\* already lies in [out_min, out_max].
C16_ClipIsNoOp ==
    (GeneralCase /\ ~_throttle_curve_enabled) =>
        \A i \in EnabledMotors : calc.unclipped[i] >= OutMin /\ calc.unclipped[i] <= OutMax

\* C17: in the general case, when the final uniform scaling is not applied,
\* limit.yaw is true if and only if the yaw value added to the motors differs
\* from the requested yaw pwm_out.
C17_YawFlagIffReduced ==
    (GeneralCase /\ calc.rpy_scale.branch = "none") =>
        (limit.yaw <=> calc.yaw # _rc_yaw.pwm_out)

\* C18: the yaw value added into each motor's term has the sign of the
\* requested yaw pwm_out and at most its magnitude, and when the request is at
\* least AP_MOTORS_MATRIX_YAW_LOWER_LIMIT_PWM in magnitude, so is the value added.
C18_YawAddedWithinRequest ==
    GeneralCase =>
        /\ (_rc_yaw.pwm_out > 0 => calc.yaw > 0)
        /\ (_rc_yaw.pwm_out < 0 => calc.yaw < 0)
        /\ (_rc_yaw.pwm_out = 0 => calc.yaw = 0)
        /\ Abs(calc.yaw) <= Abs(_rc_yaw.pwm_out)
        /\ (Abs(_rc_yaw.pwm_out) >= AP_MOTORS_MATRIX_YAW_LOWER_LIMIT_PWM
               => Abs(calc.yaw) >= AP_MOTORS_MATRIX_YAW_LOWER_LIMIT_PWM)

\* C18 witness: a left yaw request of 300 was cut to the lower limit, -200
C18_Witness ==
    /\ GeneralCase
    /\ _rc_yaw.pwm_out = -300
    /\ calc.yaw_out.limited
    /\ calc.yaw = -AP_MOTORS_MATRIX_YAW_LOWER_LIMIT_PWM

\* the fraction s.num / s.den is not negative (an infinity by its sign)
ScaleNotNegative(s) ==
    IF s.den = 0 THEN s.num >= 0 ELSE (s.num >= 0) = (s.den > 0) \/ s.num = 0

\* C19: in every output_armed call the factor rpy_scale is never negative.
C19_ScaleNotNegative == GeneralCase => ScaleNotNegative(calc.rpy_scale)

SlotOps == {"add_motor_raw", "add_motor", "remove_motor"}

\* C12: add_motor_raw, add_motor and remove_motor with a slot index outside
\* [0, AP_MOTORS_MAX_NUM_MOTORS) change nothing: not the enabled flags, factors,
\* test orders or counter of any slot, and nothing else the caller could read.
C12_OutOfRangeIsNoOp ==
    [][(call'.op \in SlotOps /\ ~ValidMotorNum(call'.motor_num))
        => UNCHANGED <<regvars, rcvars, cfgvars, outvars, hal, testvars>>]_vars

\* C12 witness: calls with slot -1 or slot AP_MOTORS_MAX_NUM_MOTORS have been
\* made on a registry holding two motors, one of them in the last slot
C12_Witness ==
    /\ call.op \in SlotOps /\ ~ValidMotorNum(call.motor_num)
    /\ _num_motors = 2
    /\ motor_enabled[AP_MOTORS_MAX_NUM_MOTORS - 1]

(***************************************************************************)
(* The operations that send output, in any order: the mixer and the test   *)
(* sequencer on the same registry                                          *)
(***************************************************************************)
\* a frame whose motors were all removed: remove_motor leaves the test orders
Stripped == RemoveAllMotors(RawPair)

OutputGeometries == {QuadX, RawPair, Stripped}

\* throttle servo_out and radio_out, roll, pitch and yaw pwm_out of one call
OutputInputs ==
    { <<0, 1000, 0, 0, 0>>, <<500, 1500, 0, 0, 0>>, <<500, 1500, 800, -300, 450>>,
      <<1000, 2000, 800, 0, -300>> }

InitOutputs ==
    /\ \E g \in OutputGeometries :
          /\ motor_enabled = g.motor_enabled
          /\ _roll_factor  = g._roll_factor
          /\ _pitch_factor = g._pitch_factor
          /\ _yaw_factor   = g._yaw_factor
          /\ _test_order   = g._test_order
          /\ _num_motors   = g._num_motors
    /\ InitCfgDefault /\ InitRC /\ InitOut /\ InitTest

NextOutputs ==
    \/ \E in \in OutputInputs : output_armed(in[1], in[2], in[3], in[4], in[5])
    \/ output_min
    \/ output_disarmed
    \/ output_test_begin
    \/ output_test_on
    \/ output_test_off
    \/ output_test_spin
    \/ output_test_finish

SpecOutputs == InitOutputs /\ [][NextOutputs]_vars

\* C11: output_armed, output_min, output_disarmed and output_test leave the
\* registry unchanged: no step of these operations changes motor_enabled, a
\* roll, pitch or yaw factor, a test order or _num_motors.
C11_RegistryUnchanged == [][UNCHANGED regvars]_vars

\* C11 witness: an output_test has run to its end on the four-motor frame after
\* an output_armed call that set the flags, and the frame is as registered
C11_Witness ==
    /\ call.op = "output_test" /\ pc = "done"
    /\ limit = AllTrue
    /\ Registry = QuadX

=============================================================================
